---------------------------- MODULE Spec2Model ----------------------------
(***************************************************************************)
(* Model of the chat backend of src/server.js and src/ai.js: the session   *)
(* store and message log kept in the Realtime Database under               *)
(* users/<uid>/sessions/<sid>/{meta,messages}, and the request handlers    *)
(* that read and write them.  A handler is cut into one action per await:  *)
(* the database calls a handler issues are applied by the database in the  *)
(* order they are issued (one server process, one ordered connection), so  *)
(* each call takes effect atomically at the step that issues it, and other *)
(* requests interleave between the steps.                                  *)
(***************************************************************************)
EXTENDS Integers, Sequences, FiniteSets, TLC

VARIABLES
  meta,      \* meta[u][s]: the node users/u/sessions/s/meta, a function from
             \* the field names it holds to their values (<< >>: no node)
  msgs,      \* msgs[u][s]: the node users/u/sessions/s/messages, a function
             \* from push keys to {role, text, ts} (<< >>: no node)
  now,       \* the database server's clock (ServerValue.TIMESTAMP resolves to it)
  nextKey,   \* rank of the next push id (push ids sort in generation order)
  seen,      \* session ids that have appeared so far (uuidv4 returns a fresh one)
  deleted,   \* the <<uid, sid>> for which a DELETE request has been answered
  started,   \* number of send-message requests accepted so far
  last,      \* the most recent response, as far as the properties tell
             \* responses apart: "rename 400", "send 400", "delete of absent"
             \* (a delete answered for a session that held nothing), "other"
  pc,        \* pc[p]: position of request slot p in the send-message handler
  req,       \* req[p]: uid, sid and text of the request
  userKey,   \* userKey[p]: key of userRef (0 before the push)
  aiKey,     \* aiKey[p]: key of aiRef (0 before the push)
  snap,      \* snap[p]: value of the windowed read
  history,   \* history[p]: the context list handed to generateReply
  outcome,   \* outcome[p]: what model.generateContent did
  replyText, \* replyText[p]
  sessionRows, \* GET /api/sessions: the rows built from the sessions read
  listed     \* GET /api/sessions: the body of the response

vars == <<meta, msgs, now, nextKey, seen, deleted, started, last, pc, req,
          userKey, aiKey, snap, history, outcome, replyText, sessionRows, listed>>

---------------------------------------------------------------------------
(* Bounds of the model *)
MaxClock == 2
MaxSends == 2
MaxPre == 12
MaxRows == 202
MaxFewRows == 40
MaxForeign == 3

(* Program constants *)
WindowLimit == 20
ListLimit == 200

Users == {"u1", "u2"}
SidOrder == <<"s1", "s2">>
Sids == {SidOrder[i] : i \in 1..Len(SidOrder)}
SlotOrder == <<"p1", "p2">>
Procs == {SlotOrder[i] : i \in 1..Len(SlotOrder)}

\* the texts of the source, in ASCII (the source's ellipsis is one character
\* and its two fallback texts begin with a warning sign)
DefaultTitle == "New chat"
Ellipsis == "..."
ServerFallback == "AI service error."
GeminiFallback == "Sorry, I had trouble talking to Gemini."
\* ServerValue.TIMESTAMP as it stands in an object that was not read back
\* from the database: a placeholder, not a time (times are >= 1)
SvTimestamp == 0 - 1

(* JavaScript values of the request body fields *)
Undefined == [t |-> "undefined", v |-> ""]
Str(s) == [t |-> "string", v |-> s]
Num(s) == [t |-> "number", v |-> s]
Falsy(x) == x.t = "undefined" \/ (x.t = "string" /\ x.v = "")
                              \/ (x.t = "number" /\ x.v = "0")

TitleInputs == {Undefined, Str(""), Str("T")}
TextInputs == {Undefined, Str(""), Num("7"), Str("hi")}
Outcomes == {"ok", "empty", "throw"}

EmptyNode == << >>
NoReq == [uid |-> "u1", sid |-> "s1", text |-> ""]

---------------------------------------------------------------------------
(* Database primitives *)

\* ref.update(fields): merges the fields into the node, creating it if absent
Update(node, fields) ==
  [f \in (DOMAIN node) \cup (DOMAIN fields) |->
      IF f \in DOMAIN fields THEN fields[f] ELSE node[f]]

\* push ids in ascending key order
RECURSIVE SortedKeys(_)
SortedKeys(S) ==
  IF S = {} THEN << >>
  ELSE LET k == CHOOSE x \in S : \A y \in S : x <= y
       IN <<k>> \o SortedKeys(S \ {k})

\* (variant: limitToFirst(n), the n children with the least keys)
LimitToFirst(node, n) ==
  LET ks == SortedKeys(DOMAIN node)
      kept == {ks[i] : i \in 1..(IF Len(ks) > n THEN n ELSE Len(ks))}
  IN [k \in kept |-> node[k]]
\* query limitToLast(n): the n children with the greatest keys
LimitToLast(node, n) ==
  LET ks == SortedKeys(DOMAIN node)
      first == IF Len(ks) > n THEN Len(ks) - n + 1 ELSE 1
      kept == {ks[i] : i \in first..Len(ks)}
  IN [k \in kept |-> node[k]]


\* the server resolves the ServerValue.TIMESTAMP placeholder when it accepts a write
Resolve(m, t) == [m EXCEPT !.ts = IF m.ts = SvTimestamp THEN t ELSE m.ts]

\* (variant: set() on the last child of the list in place of a new child)
PushSetOverLast(node, key, m, t) ==
  IF DOMAIN node = {} THEN [k \in {key} |-> Resolve(m, t)]
  ELSE [node EXCEPT ![CHOOSE x \in DOMAIN node : \A y \in DOMAIN node : y <= x] =
                       Resolve(m, t)]
\* msgsRef.push() followed by set(m): a new child under a new greatest key
PushSet(node, key, m, t) ==
  [k \in (DOMAIN node) \cup {key} |-> IF k = key THEN Resolve(m, t) ELSE node[k]]

UserMsg(text) == [role |-> "user", text |-> text, ts |-> SvTimestamp]
AiMsg(text) == [role |-> "assistant", text |-> text, ts |-> SvTimestamp]

\* (variant: the user's message is not written before the generator is called)
StoreUserDeferred(node, key, text, t) == node

\* lines 135-137 and 160-162
StoreUser(node, key, text, t) == PushSet(node, key, UserMsg(text), t)
\* (variant: set() on the messages node itself, which replaces the log)
StoreAiReplacingLog(node, key, text, t) ==
  [k \in {key} |-> Resolve(AiMsg(text), t)]
StoreAi(node, key, text, t) == PushSet(node, key, AiMsg(text), t)

\* a field of a stored message that is present and not the empty string
Truthy(m, f) == f \in DOMAIN m /\ m[f] # ""

\* server.js 141-147: the context list built from the windowed read
RECURSIVE Filtered(_, _)
Filtered(sn, ks) ==
  IF ks = << >> THEN << >>
  ELSE LET m == sn[Head(ks)]
           rest == Filtered(sn, Tail(ks))
       IN IF Truthy(m, "role") /\ Truthy(m, "text")
          THEN <<[role |-> m.role, text |-> m.text]>> \o rest
          ELSE rest

BuildHistory(sn, text) ==
  Append(Filtered(sn, SortedKeys(DOMAIN sn)), [role |-> "user", text |-> text])

\* (variant: generateReply lets the failure of the model call through)
GenerateReplyRethrows(messages, o) ==
  IF o = "throw" THEN [threw |-> TRUE, text |-> ""]
  ELSE IF o = "empty" THEN [threw |-> FALSE, text |-> ""]
  ELSE [threw |-> FALSE, text |-> "reply"]

\* ai.js generateReply: every failure of the model call is caught inside and
\* answered with a fixed text; the promise never rejects
GenerateReply(messages, o) ==
  IF o = "throw" THEN [threw |-> FALSE, text |-> GeminiFallback]
  ELSE IF o = "empty" THEN [threw |-> FALSE, text |-> ""]
  ELSE [threw |-> FALSE, text |-> "reply"]

\* server.js 150-157
ReplyText(res) ==
  IF res.threw THEN ServerFallback
  ELSE IF res.text = "" THEN Ellipsis ELSE res.text

\* stable sort, ascending by (ts || 0)
TsOr0(r) == IF "ts" \in DOMAIN r THEN r.ts ELSE 0
\* (variant: a sort that is not stable, equal ts come out in reverse)
InsertByTsUnstable(sorted, r) ==
  LET n == Cardinality({i \in 1..Len(sorted) : TsOr0(sorted[i]) < TsOr0(r)})
  IN SubSeq(sorted, 1, n) \o <<r>> \o SubSeq(sorted, n + 1, Len(sorted))
InsertByTs(sorted, r) ==
  LET n == Cardinality({i \in 1..Len(sorted) : TsOr0(sorted[i]) <= TsOr0(r)})
  IN SubSeq(sorted, 1, n) \o <<r>> \o SubSeq(sorted, n + 1, Len(sorted))
RECURSIVE SortByTs(_)
SortByTs(rows) ==
  IF rows = << >> THEN << >>
  ELSE InsertByTs(SortByTs(SubSeq(rows, 1, Len(rows) - 1)), rows[Len(rows)])

\* line 72: rows.sort((a, b) => (b.updatedAt || 0) - (a.updatedAt || 0))
UpdatedAtOr0(r) == IF "updatedAt" \in DOMAIN r THEN r.updatedAt ELSE 0
\* (variant: the comparator's operands exchanged, ascending order)
OlderFirst(a, b) == UpdatedAtOr0(a) - UpdatedAtOr0(b)
\* the comparator: negative when a is to come before b
NewerFirst(a, b) == UpdatedAtOr0(b) - UpdatedAtOr0(a)
\* Array.prototype.sort is stable: a row comes after the rows the comparator
\* puts before it and after the rows that compare equal to it and stand
\* before it in the array
SortByUpdatedAt(rows) ==
  LET place == [i \in 1..Len(rows) |->
                  1 + Cardinality({j \in 1..Len(rows) :
                        \/ NewerFirst(rows[j], rows[i]) < 0
                        \/ NewerFirst(rows[j], rows[i]) = 0 /\ j < i})]
  IN [p \in 1..Len(rows) |-> rows[CHOOSE i \in 1..Len(rows) : place[i] = p]]

\* GET /api/sessions/:sid/messages, lines 115-118, on the value of the
\* messages node
MessageRows(node) ==
  SortByTs([i \in 1..Len(SortedKeys(DOMAIN node)) |->
              Update([id |-> SortedKeys(DOMAIN node)[i]],
                     node[SortedKeys(DOMAIN node)[i]])])

ListMessages(u, s) == MessageRows(msgs[u][s])

\* GET /api/sessions, lines 67-73, on the values of the meta and messages
\* nodes of the user's sessions
RECURSIVE SessionRows(_, _, _)
SessionRows(m, g, i) ==
  IF i > Len(SidOrder) THEN << >>
  ELSE (IF m[SidOrder[i]] # EmptyNode \/ g[SidOrder[i]] # EmptyNode
        THEN <<Update([id |-> SidOrder[i]], m[SidOrder[i]])>> ELSE << >>)
       \o SessionRows(m, g, i + 1)

\* lines 72-73: rows.sort(...), rows.slice(0, 200)
ListRows(rows) ==
  SubSeq(SortByUpdatedAt(rows), 1,
         IF Len(rows) < ListLimit THEN Len(rows) ELSE ListLimit)

SessionList(m, g) == ListRows(SessionRows(m, g, 1))

ListSessions(u) == SessionList(meta[u], msgs[u])

---------------------------------------------------------------------------
Init ==
  /\ meta = [u \in Users |-> [s \in Sids |-> EmptyNode]]
  /\ msgs = [u \in Users |-> [s \in Sids |-> EmptyNode]]
  /\ now = 1
  /\ nextKey = 1
  /\ seen = {}
  /\ deleted = {}
  /\ started = 0
  /\ last = "other"
  /\ pc = [p \in Procs |-> "idle"]
  /\ req = [p \in Procs |-> NoReq]
  /\ userKey = [p \in Procs |-> 0]
  /\ aiKey = [p \in Procs |-> 0]
  /\ snap = [p \in Procs |-> EmptyNode]
  /\ history = [p \in Procs |-> << >>]
  /\ outcome = [p \in Procs |-> "none"]
  /\ replyText = [p \in Procs |-> ""]
  /\ sessionRows = << >>
  /\ listed = << >>

pipeVars == <<pc, req, userKey, aiKey, snap, history, outcome, replyText,
              started, nextKey>>
listVars == <<sessionRows, listed>>

\* the server clock advances
Tick ==
  /\ now < MaxClock
  /\ now' = now + 1
  /\ UNCHANGED <<meta, msgs, seen, deleted, last, pipeVars, listVars>>

\* POST /api/sessions
CreateSession(u, S, title) ==
  \E s \in S \ seen :
    LET t == IF Falsy(title) THEN DefaultTitle ELSE title.v
    IN /\ meta' = [meta EXCEPT ![u][s] =
                     [title |-> t, createdAt |-> now, updatedAt |-> now]]
       /\ seen' = seen \cup {s}
       /\ last' = "other"
       /\ UNCHANGED <<msgs, now, deleted, pipeVars, listVars>>

\* PATCH /api/sessions/:sid
\* (variant: set() in place of update(), which replaces the node)
RenameWriteSet(node, title, t) == [title |-> title, updatedAt |-> t]

\* lines 95-98: update() merges title and updatedAt into the meta node
RenameWrite(node, title, t) == Update(node, [title |-> title, updatedAt |-> t])

\* (variant: only a missing title is last, an empty one is accepted)
RenameStatusMissingOnly(title) == IF title.t = "undefined" THEN 400 ELSE 200
\* line 94: if (!title) return 400
RenameStatus(title) == IF Falsy(title) THEN 400 ELSE 200

RenameSession(u, s, title) ==
  /\ seen' = seen \cup {s}
  /\ IF RenameStatus(title) = 400
     THEN /\ last' = "rename 400"
          /\ UNCHANGED meta
     ELSE /\ meta' = [meta EXCEPT ![u][s] =
                        RenameWrite(@, title.v, now)]
          /\ last' = "other"
  /\ UNCHANGED <<msgs, now, deleted, pipeVars, listVars>>

\* DELETE /api/sessions/:sid
\* (variant: the path of the removed node leaves out the user id)
RemoveSessionOfAnyUser(tree, u, s) ==
  [v \in DOMAIN tree |-> [tree[v] EXCEPT ![s] = EmptyNode]]
\* (variant: the node removed is the user's sessions node)
RemoveSessionsOfUser(tree, u, s) ==
  [tree EXCEPT ![u] = [x \in DOMAIN tree[u] |-> EmptyNode]]
\* line 107: res.json({ ok: true })
DeleteStatus == 200
\* line 106: remove() of the node users/<uid>/sessions/<sid>, applied to the
\* meta children and to the messages children of the sessions
RemoveSession(tree, u, s) == [tree EXCEPT ![u][s] = EmptyNode]

DeleteSession(u, s) ==
  /\ meta' = RemoveSession(meta, u, s)
  /\ msgs' = RemoveSession(msgs, u, s)
  /\ seen' = seen \cup {s}
  /\ deleted' = deleted \cup {<<u, s>>}
  /\ last' = IF meta[u][s] = EmptyNode /\ msgs[u][s] = EmptyNode
             THEN "delete of absent" ELSE "other"
  /\ UNCHANGED <<now, pipeVars, listVars>>

\* POST /api/sessions/:sid/messages, lines 124-137: validation, then the
\* user's message is pushed
\* lines 128-129 and 167: the status of the response, and the body of a 201
\* (variant: the type of text is not tested, only that it is truthy)
SendStatusTruthyOnly(text) == IF Falsy(text) THEN 400 ELSE 201
SendStatus(text) == IF Falsy(text) \/ text.t # "string" THEN 400 ELSE 201
SendResponse(p) ==
  [status |-> 201, user |-> UserMsg(req[p].text),
   assistant |-> AiMsg(replyText[p])]

Free(p) == pc[p] = "idle"
\* a new request is handled in the first request slot that is free
FirstFree(p) ==
  /\ Free(p)
  /\ \A i, j \in 1..Len(SlotOrder) :
        (SlotOrder[j] = p /\ i < j) => ~Free(SlotOrder[i])

SendStart(p, u, s, text) ==
  /\ FirstFree(p)
  /\ seen' = seen \cup {s}
  /\ IF SendStatus(text) = 400
     THEN /\ last' = "send 400"
          /\ UNCHANGED <<msgs, nextKey, started, pc, req, userKey>>
     ELSE /\ started < MaxSends
          /\ UNCHANGED last
          /\ msgs' = [msgs EXCEPT ![u][s] =
                        StoreUser(@, nextKey, text.v, now)]
          /\ userKey' = [userKey EXCEPT ![p] = nextKey]
          /\ nextKey' = nextKey + 1
          /\ started' = started + 1
          /\ req' = [req EXCEPT ![p] = [uid |-> u, sid |-> s, text |-> text.v]]
          /\ pc' = [pc EXCEPT ![p] = "read"]
  /\ UNCHANGED <<meta, now, deleted, aiKey, snap, history, outcome, replyText,
                 listVars>>

\* lines 139-152: the windowed read, the context list, the generator is called
SendRead(p) ==
  /\ pc[p] = "read"
  /\ snap' = [snap EXCEPT ![p] =
                LimitToLast(msgs[req[p].uid][req[p].sid], WindowLimit)]
  /\ history' = [history EXCEPT ![p] = BuildHistory(snap'[p], req[p].text)]
  /\ pc' = [pc EXCEPT ![p] = "gen"]
  /\ UNCHANGED <<meta, msgs, now, nextKey, seen, deleted, started, last, req,
                 userKey, aiKey, outcome, replyText, listVars>>

\* lines 152-162: the generator call settles, the assistant message is pushed
SendReply(p, o) ==
  /\ pc[p] = "gen"
  /\ replyText' = [replyText EXCEPT ![p] =
                     ReplyText(GenerateReply(history[p], o))]
  /\ msgs' = [msgs EXCEPT ![req[p].uid][req[p].sid] =
                StoreAi(@, nextKey, replyText'[p], now)]
  /\ outcome' = [outcome EXCEPT ![p] = o]
  /\ aiKey' = [aiKey EXCEPT ![p] = nextKey]
  /\ nextKey' = nextKey + 1
  /\ pc' = [pc EXCEPT ![p] = "meta"]
  /\ UNCHANGED <<meta, now, seen, deleted, started, last, req, userKey, snap,
                 history, listVars>>

\* lines 164-167: the metadata timestamp, then the 201 response (SendResponse)
SendFinish(p) ==
  /\ pc[p] = "meta"
  /\ meta' = [meta EXCEPT ![req[p].uid][req[p].sid] =
                Update(@, [updatedAt |-> now])]
  /\ snap' = [snap EXCEPT ![p] = EmptyNode]
  /\ history' = [history EXCEPT ![p] = << >>]
  /\ replyText' = [replyText EXCEPT ![p] = ""]
  /\ userKey' = [userKey EXCEPT ![p] = 0]
  /\ aiKey' = [aiKey EXCEPT ![p] = 0]
  /\ req' = [req EXCEPT ![p] = NoReq]
  /\ outcome' = [outcome EXCEPT ![p] = "none"]
  /\ pc' = [pc EXCEPT ![p] = "idle"]
  /\ last' = "other"
  /\ UNCHANGED <<msgs, now, nextKey, seen, deleted, started, listVars>>

\* the requests of the users in U on the session ids in S, handled in the
\* request slots in P
Requests(U, S, P) ==
  \/ \E u \in U, title \in TitleInputs : CreateSession(u, S, title)
  \/ \E u \in U, s \in S, title \in TitleInputs : RenameSession(u, s, title)
  \/ \E u \in U, s \in S : DeleteSession(u, s)
  \/ \E p \in P, u \in U, s \in S, text \in TextInputs : SendStart(p, u, s, text)
  \/ \E p \in P : SendRead(p)
  \/ \E p \in P, o \in Outcomes : SendReply(p, o)
  \/ \E p \in P : SendFinish(p)

Next == Tick \/ Requests({"u1"}, {"s1"}, Procs)

Spec == Init /\ [][Next]_vars

\* every request that was accepted runs to its end: a database call is
\* answered, and the model call returns or fails (ai.js awaits it without a
\* timeout of its own; the transport ends it)
Fairness ==
  \A p \in Procs :
    /\ WF_vars(SendRead(p))
    /\ WF_vars(\E o \in Outcomes : SendReply(p, o))
    /\ WF_vars(SendFinish(p))

FairSpec == Init /\ [][Next]_vars /\ Fairness

\* a session that already holds the messages of n earlier exchanges, each a
\* user message and the reply to it
PriorLog(n) ==
  [k \in 1..(2 * n) |->
     IF k % 2 = 1 THEN [role |-> "user", text |-> "hi", ts |-> 1]
                  ELSE [role |-> "assistant", text |-> "reply", ts |-> 1]]

InitWin ==
  \E n \in 0..MaxPre :
    /\ meta = [u \in Users |-> [s \in Sids |->
                 IF u = "u1" /\ s = "s1"
                 THEN [title |-> DefaultTitle, createdAt |-> 1, updatedAt |-> 1]
                 ELSE EmptyNode]]
    /\ msgs = [u \in Users |-> [s \in Sids |->
                 IF u = "u1" /\ s = "s1" THEN PriorLog(n) ELSE EmptyNode]]
    /\ now = 1
    /\ nextKey = 2 * n + 1
    /\ seen = {"s1"}
    /\ deleted = {}
    /\ started = 0
    /\ last = "other"
    /\ pc = [p \in Procs |-> "idle"]
    /\ req = [p \in Procs |-> NoReq]
    /\ userKey = [p \in Procs |-> 0]
    /\ aiKey = [p \in Procs |-> 0]
    /\ snap = [p \in Procs |-> EmptyNode]
    /\ history = [p \in Procs |-> << >>]
    /\ outcome = [p \in Procs |-> "none"]
    /\ replyText = [p \in Procs |-> ""]
    /\ sessionRows = << >>
    /\ listed = << >>

\* send-message requests on that session, one at a time
NextWin ==
  \/ Tick
  \/ \E text \in TextInputs : SendStart("p1", "u1", "s1", text)
  \/ SendRead("p1")
  \/ \E o \in Outcomes : SendReply("p1", o)
  \/ SendFinish("p1")

SpecWin == InitWin /\ [][NextWin]_vars

\* messages as another writer of the database may have left them in a log
\* (ai.js 17 looks for a message of role system, which no route stores, and
\* the test of server.js 144 is there for entries without role or text)
ForeignEntries ==
  {[role |-> "user", text |-> "hi", ts |-> 1],
   [role |-> "system", ts |-> 1],
   [text |-> "hi", ts |-> 1],
   [ts |-> 1]}

InitFilter ==
  \E n \in 0..MaxForeign :
    \E log \in [1..n -> ForeignEntries] :
      /\ meta = [u \in Users |-> [s \in Sids |->
                   IF u = "u1" /\ s = "s1"
                   THEN [title |-> DefaultTitle, createdAt |-> 1, updatedAt |-> 1]
                   ELSE EmptyNode]]
      /\ msgs = [u \in Users |-> [s \in Sids |->
                   IF u = "u1" /\ s = "s1" THEN log ELSE EmptyNode]]
      /\ now = 1
      /\ nextKey = n + 1
      /\ seen = {"s1"}
      /\ deleted = {}
      /\ started = 0
      /\ last = "other"
      /\ pc = [p \in Procs |-> "idle"]
      /\ req = [p \in Procs |-> NoReq]
      /\ userKey = [p \in Procs |-> 0]
      /\ aiKey = [p \in Procs |-> 0]
      /\ snap = [p \in Procs |-> EmptyNode]
      /\ history = [p \in Procs |-> << >>]
      /\ outcome = [p \in Procs |-> "none"]
      /\ replyText = [p \in Procs |-> ""]
      /\ sessionRows = << >>
      /\ listed = << >>

SpecFilter == InitFilter /\ [][NextWin]_vars

\* two users and two session ids, send-message requests one at a time
NextMulti ==
  \/ \E u \in Users : CreateSession(u, Sids, Undefined)
  \/ \E u \in Users, s \in Sids : RenameSession(u, s, Str("T"))
  \/ \E u \in Users, s \in Sids : DeleteSession(u, s)
  \/ \E u \in Users, s \in Sids : SendStart("p1", u, s, Str("hi"))
  \/ SendRead("p1")
  \/ SendReply("p1", "ok")
  \/ SendFinish("p1")

SpecMulti == Init /\ [][NextMulti]_vars

\* GET /api/sessions on the sessions of a user who has n of them, n small or
\* around the limit of line 73 (below it, at it and above it): the k-th
\* session read has the updatedAt (k * step) % 3, and none when that is 0
\* (a session that holds messages but no meta record yields the row {id})
RowsRead(n, step) ==
  [k \in 1..n |->
     IF (k * step) % 3 = 0 THEN [id |-> k]
     ELSE [id |-> k, title |-> DefaultTitle, createdAt |-> 1,
           updatedAt |-> (k * step) % 3]]

InitList ==
  \E n \in (0..MaxFewRows) \cup ((ListLimit - 1)..MaxRows), step \in 1..3 :
    /\ sessionRows = RowsRead(n, step)
    /\ listed = << >>
    /\ meta = [u \in Users |-> [s \in Sids |-> EmptyNode]]
    /\ msgs = [u \in Users |-> [s \in Sids |-> EmptyNode]]
    /\ now = 1
    /\ nextKey = 1
    /\ seen = {}
    /\ deleted = {}
    /\ started = 0
    /\ last = "other"
    /\ pc = [p \in Procs |-> "idle"]
    /\ req = [p \in Procs |-> NoReq]
    /\ userKey = [p \in Procs |-> 0]
    /\ aiKey = [p \in Procs |-> 0]
    /\ snap = [p \in Procs |-> EmptyNode]
    /\ history = [p \in Procs |-> << >>]
    /\ outcome = [p \in Procs |-> "none"]
    /\ replyText = [p \in Procs |-> ""]

\* lines 72-73: the rows are sorted and the first 200 are the response
ListStep ==
  /\ listed' = ListRows(sessionRows)
  /\ UNCHANGED <<meta, msgs, now, seen, deleted, last, pipeVars, sessionRows>>

NextList == ListStep

SpecList == InitList /\ [][NextList]_vars

---------------------------------------------------------------------------
(* Properties *)

Log(p) == msgs[req[p].uid][req[p].sid]
StoredIn(log, key, role, text) ==
  key \in DOMAIN log /\ log[key].role = role /\ log[key].text = text
Pairs == Users \X Sids

\* C1: the user's message is in the session's log from the step that accepts
\* the request, before the generator is called, and stays there through the
\* generator's return or failure and the rest of the handler, unless the
\* session is deleted meanwhile.
C1_UserMessageDurable ==
  [][\A p \in Procs :
       /\ (pc[p] = "idle" /\ pc'[p] = "read")
            => StoredIn(Log(p)', userKey'[p], "user", req'[p].text)
       /\ (pc[p] = "read" /\ pc'[p] = "gen")
            => (userKey[p] # 0 /\ history'[p] # << >>)
       /\ (/\ pc[p] \in {"read", "gen", "meta"}
           /\ StoredIn(Log(p), userKey[p], "user", req[p].text)
           /\ ~DeleteSession(req[p].uid, req[p].sid))
            => StoredIn(msgs'[req[p].uid][req[p].sid], userKey[p], "user",
                        req[p].text)]_vars

C1_Witness ==
  \E p \in Procs :
    /\ pc[p] = "meta"
    /\ outcome[p] = "throw"
    /\ StoredIn(Log(p), userKey[p], "user", req[p].text)

\* C2: a send-message request with valid text appends exactly two messages,
\* the user's and then the assistant's, answers 201 with one user and one
\* assistant message whatever the generator did, the assistant text being the
\* fixed text of ai.js when the model call failed, and every accepted request
\* reaches that answer.
C2_SendAlwaysAnswers ==
  /\ [][\A p \in Procs :
          /\ (pc[p] = "idle" /\ pc'[p] = "read")
               => /\ userKey'[p] \notin DOMAIN msgs[req'[p].uid][req'[p].sid]
                  /\ DOMAIN Log(p)' =
                       DOMAIN msgs[req'[p].uid][req'[p].sid] \cup {userKey'[p]}
          /\ (pc[p] = "gen" /\ pc'[p] = "meta")
               => /\ aiKey'[p] \notin DOMAIN Log(p)
                  /\ DOMAIN Log(p)' = DOMAIN Log(p) \cup {aiKey'[p]}
                  /\ StoredIn(Log(p)', aiKey'[p], "assistant", replyText'[p])
                  /\ (outcome'[p] = "throw") => (replyText'[p] = GeminiFallback)
          /\ (SendRead(p) \/ SendFinish(p)) => (msgs' = msgs)
          /\ SendFinish(p)
               => LET r == SendResponse(p)
                  IN /\ r.status = 201
                     /\ DOMAIN r = {"status", "user", "assistant"}
                     /\ r.user.role = "user" /\ r.user.text = req[p].text
                     /\ r.assistant.role = "assistant"
                     /\ r.assistant.text # ""
                     /\ (outcome[p] = "throw")
                          => (r.assistant.text = GeminiFallback)
                     /\ (aiKey[p] \in DOMAIN Log(p))
                          => (Log(p)[aiKey[p]].text = r.assistant.text)]_vars
  /\ \A p \in Procs : (pc[p] = "read") ~> (pc[p] = "idle")

C2_Witness ==
  \E p \in Procs :
    /\ pc[p] = "meta"
    /\ outcome[p] = "throw"
    /\ SendResponse(p).assistant.text = GeminiFallback
    /\ StoredIn(Log(p), aiKey[p], "assistant", GeminiFallback)

\* C3: the context handed to the generator never has more than 20 entries,
\* while listMessages returns every stored message.
C3_ContextAtMostWindow ==
  \A p \in Procs :
    pc[p] = "gen" =>
      /\ Len(history[p]) <= WindowLimit
      /\ Len(ListMessages(req[p].uid, req[p].sid)) = Cardinality(DOMAIN Log(p))

\* C4: the context always holds the triggering user message, and the explicit
\* append at its end happens only if the windowed read did not return that
\* message, so the message is in the context once.
C4_AppendIfAbsent ==
  \A p \in Procs :
    pc[p] = "gen" =>
      LET read == Filtered(snap[p], SortedKeys(DOMAIN snap[p]))
          mine == [role |-> "user", text |-> req[p].text]
      IN /\ \E i \in 1..Len(history[p]) : history[p][i] = mine
         /\ history[p] = IF userKey[p] \in DOMAIN snap[p]
                         THEN read ELSE Append(read, mine)

\* C5: a message is appended to a session's log only while the session's
\* record exists.
C5_ParentExistsAtAppend ==
  [][\A q \in Pairs :
       (DOMAIN msgs'[q[1]][q[2]] \ DOMAIN msgs[q[1]][q[2]] # {})
         => meta[q[1]][q[2]] # EmptyNode]_vars

IdsOf(rows) == {rows[i].id : i \in 1..Len(rows)}
ListedIds(u) == IdsOf(ListSessions(u))

\* C6: once a delete of a session has been answered, the session stays gone
\* (listMessages returns no message of it, listSessions does not list it),
\* also through the remaining steps of a send-message request on it that was
\* in flight when it was deleted.
C6_DeletedStaysGone ==
  [][\A q \in deleted, p \in Procs :
       (/\ ListMessages(q[1], q[2]) = << >>
        /\ q[2] \notin ListedIds(q[1])
        /\ SendRead(p) \/ (\E o \in Outcomes : SendReply(p, o)) \/ SendFinish(p))
         => /\ MessageRows(msgs'[q[1]][q[2]]) = << >>
            /\ q[2] \notin IdsOf(SessionList(meta'[q[1]], msgs'[q[1]]))]_vars

\* C7: listMessages returns one entry for each stored message, in
\* non-decreasing ts order, and every append that is accepted, whichever
\* request makes it, puts its message at the end of that list and leaves the
\* entries before it as they were (so the list is in append order).
C7_ListInAppendOrder ==
  /\ [](\A q \in Pairs :
          /\ Len(ListMessages(q[1], q[2])) = Cardinality(DOMAIN msgs[q[1]][q[2]])
          /\ \A i \in 1..(Len(ListMessages(q[1], q[2])) - 1) :
               ListMessages(q[1], q[2])[i].ts <= ListMessages(q[1], q[2])[i + 1].ts)
  /\ [][\A q \in Pairs :
          ~DeleteSession(q[1], q[2]) =>
            \/ MessageRows(msgs'[q[1]][q[2]]) = ListMessages(q[1], q[2])
            \/ /\ Len(MessageRows(msgs'[q[1]][q[2]]))
                    = Len(ListMessages(q[1], q[2])) + 1
               /\ SubSeq(MessageRows(msgs'[q[1]][q[2]]), 1,
                         Len(ListMessages(q[1], q[2])))
                    = ListMessages(q[1], q[2])
               /\ MessageRows(msgs'[q[1]][q[2]])
                    [Len(MessageRows(msgs'[q[1]][q[2]]))].id
                    \notin DOMAIN msgs[q[1]][q[2]]]_vars
  /\ [][\A p \in Procs :
          /\ (pc[p] = "idle" /\ pc'[p] = "read")
               => MessageRows(Log(p)')
                    = Append(MessageRows(msgs[req'[p].uid][req'[p].sid]),
                             Update([id |-> userKey'[p]], Log(p)'[userKey'[p]]))
          /\ (pc[p] = "gen" /\ pc'[p] = "meta")
               => MessageRows(Log(p)')
                    = Append(MessageRows(Log(p)),
                             Update([id |-> aiKey'[p]], Log(p)'[aiKey'[p]]))]_vars

C7_Witness ==
  /\ \A p \in Procs : pc[p] # "idle" /\ req[p] = req["p1"]
  /\ Len(ListMessages(req["p1"].uid, req["p1"].sid)) >= 3
  /\ \E i \in 1..(Len(ListMessages(req["p1"].uid, req["p1"].sid)) - 1) :
       ListMessages(req["p1"].uid, req["p1"].sid)[i].ts
         = ListMessages(req["p1"].uid, req["p1"].sid)[i + 1].ts

\* C8: in every state, a stored session has updatedAt >= createdAt, and
\* updatedAt >= the ts of each of its messages once it has any.
C8_UpdatedAtCoversLog ==
  \A q \in Pairs :
    meta[q[1]][q[2]] # EmptyNode =>
      /\ {"createdAt", "updatedAt"} \subseteq DOMAIN meta[q[1]][q[2]]
           => meta[q[1]][q[2]].updatedAt >= meta[q[1]][q[2]].createdAt
      /\ \A k \in DOMAIN msgs[q[1]][q[2]] :
           /\ "updatedAt" \in DOMAIN meta[q[1]][q[2]]
           /\ meta[q[1]][q[2]].updatedAt >= msgs[q[1]][q[2]][k].ts

\* C9: createSession stores createdAt = updatedAt; while the record lives
\* (through renames and sends) createdAt keeps its value and updatedAt never
\* decreases.
C9_TimestampsMonotone ==
  [][\A q \in Pairs :
       /\ (\E title \in TitleInputs : CreateSession(q[1], {q[2]}, title))
            => /\ {"createdAt", "updatedAt"} \subseteq DOMAIN meta'[q[1]][q[2]]
               /\ meta'[q[1]][q[2]].createdAt = meta'[q[1]][q[2]].updatedAt
       /\ (meta[q[1]][q[2]] # EmptyNode /\ "createdAt" \in DOMAIN meta[q[1]][q[2]]
             /\ ~DeleteSession(q[1], q[2]))
            => /\ {"createdAt", "updatedAt"} \subseteq DOMAIN meta'[q[1]][q[2]]
               /\ meta'[q[1]][q[2]].createdAt = meta[q[1]][q[2]].createdAt
               /\ meta'[q[1]][q[2]].updatedAt >= meta[q[1]][q[2]].updatedAt]_vars

C9_Witness ==
  \E q \in Pairs :
    /\ meta[q[1]][q[2]] # EmptyNode
    /\ "createdAt" \in DOMAIN meta[q[1]][q[2]]
    /\ meta[q[1]][q[2]].title = "T"
    /\ meta[q[1]][q[2]].updatedAt > meta[q[1]][q[2]].createdAt
    /\ Cardinality(DOMAIN msgs[q[1]][q[2]]) >= 2

SessionShape == {"title", "createdAt", "updatedAt"}

\* C10: a rename of a session id that has no record is answered with success
\* and creates no record of another shape: afterwards no record lacks title,
\* createdAt or updatedAt, and listSessions has no new entry.
C10_RenameMissingCreatesNothing ==
  [][\A q \in Pairs, title \in TitleInputs :
       (/\ RenameSession(q[1], q[2], title)
        /\ RenameStatus(title) = 200
        /\ meta[q[1]][q[2]] = EmptyNode)
         => /\ meta'[q[1]][q[2]] # EmptyNode
                 => SessionShape \subseteq DOMAIN meta'[q[1]][q[2]]
            /\ IdsOf(SessionList(meta'[q[1]], msgs'[q[1]])) = ListedIds(q[1])]_vars

\* C11: a rename whose title is empty or missing is answered 400 and leaves
\* the session's record (title and updatedAt included) and the rest of the
\* store as they were.
C11_EmptyRenameRefused ==
  [][\A q \in Pairs, title \in TitleInputs :
       (RenameSession(q[1], q[2], title) /\ Falsy(title))
         => /\ RenameStatus(title) = 400
            /\ last' = "rename 400"
            /\ meta' = meta
            /\ msgs' = msgs]_vars

C11_Witness ==
  \E q \in Pairs :
    /\ last = "rename 400"
    /\ meta[q[1]][q[2]] # EmptyNode
    /\ SessionShape \subseteq DOMAIN meta[q[1]][q[2]]
    /\ meta[q[1]][q[2]].title = "T"
    /\ meta[q[1]][q[2]].updatedAt < now

\* C12: a send-message request whose text is missing, empty or not a string
\* is answered 400 before anything is written: no message is appended, no
\* pipeline is started (so nothing is read and the generator is not called),
\* and the session's record, updatedAt included, is as before.
C12_InvalidTextRefused ==
  [][\A p \in Procs, q \in Pairs, text \in TextInputs :
       (SendStart(p, q[1], q[2], text) /\ (Falsy(text) \/ text.t # "string"))
         => /\ SendStatus(text) = 400
            /\ last' = "send 400"
            /\ msgs' = msgs
            /\ meta' = meta
            /\ nextKey' = nextKey
            /\ pc' = pc /\ req' = req
            /\ snap' = snap /\ history' = history /\ outcome' = outcome]_vars

C12_Witness ==
  \E q \in Pairs :
    /\ last = "send 400"
    /\ started = 0
    /\ \A p \in Procs : pc[p] = "idle"
    /\ SessionShape \subseteq DOMAIN meta[q[1]][q[2]]
    /\ meta[q[1]][q[2]].updatedAt < now
    /\ msgs[q[1]][q[2]] = EmptyNode

\* a step of a request made by user v (req.user.uid = v)
ActsAs(v) ==
  \/ \E title \in TitleInputs : CreateSession(v, Sids, title)
  \/ \E s \in Sids, title \in TitleInputs : RenameSession(v, s, title)
  \/ \E s \in Sids : DeleteSession(v, s)
  \/ \E p \in Procs, s \in Sids, text \in TextInputs : SendStart(p, v, s, text)
  \/ \E p \in Procs :
        /\ req[p].uid = v
        /\ SendRead(p) \/ (\E o \in Outcomes : SendReply(p, o)) \/ SendFinish(p)

\* C13: for two distinct users u and v, no step of a request of v (create,
\* rename, delete, any step of a send) changes what listSessions(u) returns
\* or anything stored under u, and a session v creates is not listed for u:
\* listSessions(u) holds only what u's own requests put there.
C13_ListsOwnSessionsOnly ==
  [][\A u \in Users, v \in Users :
       (u # v /\ ActsAs(v))
         => /\ SessionList(meta'[u], msgs'[u]) = ListSessions(u)
            /\ meta'[u] = meta[u]
            /\ msgs'[u] = msgs[u]
            /\ \A s \in Sids, title \in TitleInputs :
                 CreateSession(v, {s}, title)
                   => s \notin IdsOf(SessionList(meta'[u], msgs'[u]))]_vars

C13_Witness ==
  /\ ListedIds("u1") = {"s1"}
  /\ ListedIds("u2") = {"s2"}
  /\ SessionShape \subseteq DOMAIN meta["u1"]["s1"]
  /\ SessionShape \subseteq DOMAIN meta["u2"]["s2"]
  /\ meta["u1"]["s1"].title = DefaultTitle
  /\ meta["u2"]["s2"].title = "T"
  /\ msgs["u2"]["s2"] # EmptyNode
  /\ <<"u2", "s1">> \in deleted

\* C14: the log of a session is append-only: in every step, each stored
\* message keeps its key, role, text and ts, unless the step is the
\* deleteSession of its session, which removes the whole log; and in every
\* other step the list returned by listMessages afterwards begins with the
\* list returned before (it only grows, at its end).
C14_LogAppendOnly ==
  [][\A q \in Pairs :
       msgs'[q[1]][q[2]] # msgs[q[1]][q[2]] =>
         IF DeleteSession(q[1], q[2])
         THEN msgs'[q[1]][q[2]] = EmptyNode
         ELSE /\ \A k \in DOMAIN msgs[q[1]][q[2]] :
                   /\ k \in DOMAIN msgs'[q[1]][q[2]]
                   /\ msgs'[q[1]][q[2]][k] = msgs[q[1]][q[2]][k]
              /\ Len(MessageRows(msgs'[q[1]][q[2]])) > Len(ListMessages(q[1], q[2]))
              /\ SubSeq(MessageRows(msgs'[q[1]][q[2]]), 1,
                        Len(ListMessages(q[1], q[2])))
                   = ListMessages(q[1], q[2])]_vars

C14_Witness ==
  \E q \in Pairs :
    /\ q \notin deleted
    /\ Len(ListMessages(q[1], q[2])) = 4
    /\ ListMessages(q[1], q[2])[1].ts < ListMessages(q[1], q[2])[4].ts
    /\ ListMessages(q[1], q[2])[2].role = "user"
    /\ ListMessages(q[1], q[2])[3].role = "assistant"

\* C15: the response of listSessions holds the first 200 of the user's
\* session rows (all of them when there are fewer) in descending order of
\* updatedAt, a row without updatedAt counting as 0: each row of the
\* response is one of the rows read, none twice, adjacent rows are in
\* descending order, and no row left out is newer than a row returned.
C15_ListSortedNewestFirst ==
  listed # << >> =>
    /\ Len(listed) = IF Len(sessionRows) < ListLimit
                     THEN Len(sessionRows) ELSE ListLimit
    /\ \A i \in 1..Len(listed) :
         /\ listed[i].id \in 1..Len(sessionRows)
         /\ listed[i] = sessionRows[listed[i].id]
    /\ Cardinality(IdsOf(listed)) = Len(listed)
    /\ \A i \in 1..(Len(listed) - 1) :
         UpdatedAtOr0(listed[i]) >= UpdatedAtOr0(listed[i + 1])
    /\ \A k \in (1..Len(sessionRows)) \ IdsOf(listed) :
         UpdatedAtOr0(sessionRows[k]) <= UpdatedAtOr0(listed[Len(listed)])
    /\ \A i \in 1..Len(listed) :
         ("updatedAt" \notin DOMAIN listed[i])
           => \A j \in i..Len(listed) : UpdatedAtOr0(listed[j]) = 0

C15_Witness ==
  /\ Len(sessionRows) > ListLimit
  /\ Len(listed) = ListLimit
  /\ \E i \in 1..(Len(listed) - 1) :
       UpdatedAtOr0(listed[i]) > UpdatedAtOr0(listed[i + 1])
  /\ "updatedAt" \notin DOMAIN listed[Len(listed)]
  /\ \E k \in 1..Len(sessionRows) : k \notin IdsOf(listed)

\* C16: deleteSession is answered with success also when nothing is stored
\* under the session id, and then changes nothing; it leaves every other
\* session of the user and every session of every other user, records and
\* messages, as they were; and a second deleteSession of the same id right
\* after it leaves the store as the first one left it.
C16_DeleteIdempotent ==
  [][\A q \in Pairs :
       DeleteSession(q[1], q[2])
         => /\ DeleteStatus = 200
            /\ \A r \in Pairs \ {q} :
                 /\ meta'[r[1]][r[2]] = meta[r[1]][r[2]]
                 /\ msgs'[r[1]][r[2]] = msgs[r[1]][r[2]]
            /\ (meta[q[1]][q[2]] = EmptyNode /\ msgs[q[1]][q[2]] = EmptyNode)
                 => (meta' = meta /\ msgs' = msgs)
            /\ RemoveSession(meta', q[1], q[2]) = meta'
            /\ RemoveSession(msgs', q[1], q[2]) = msgs']_vars

C16_Witness ==
  /\ last = "delete of absent"
  /\ \E q \in deleted :
       \E r \in Pairs \ {q} :
         /\ r[1] = q[1]
         /\ SessionShape \subseteq DOMAIN meta[r[1]][r[2]]
         /\ msgs[r[1]][r[2]] # EmptyNode
  /\ \E r \in Pairs :
       /\ r[1] = "u2"
       /\ SessionShape \subseteq DOMAIN meta[r[1]][r[2]]
       /\ msgs[r[1]][r[2]] # EmptyNode
  /\ Cardinality(deleted) = 1

\* C17: the user and assistant messages in the 201 response of a send are
\* the stored ones: each has the id under which it was appended and the ts
\* recorded in the log, and equals the entry {id, role, text, ts} that
\* listMessages returns for it.
C17_ResponseIsStored ==
  [][\A p \in Procs :
       (/\ SendFinish(p)
        /\ userKey[p] \in DOMAIN Log(p)
        /\ aiKey[p] \in DOMAIN Log(p))
         => /\ "id" \in DOMAIN SendResponse(p).user
            /\ "id" \in DOMAIN SendResponse(p).assistant
            /\ SendResponse(p).user.id = userKey[p]
            /\ SendResponse(p).assistant.id = aiKey[p]
            /\ SendResponse(p).user.ts = Log(p)[userKey[p]].ts
            /\ SendResponse(p).assistant.ts = Log(p)[aiKey[p]].ts
            /\ \E i \in 1..Len(ListMessages(req[p].uid, req[p].sid)) :
                 ListMessages(req[p].uid, req[p].sid)[i] = SendResponse(p).user
            /\ \E i \in 1..Len(ListMessages(req[p].uid, req[p].sid)) :
                 ListMessages(req[p].uid, req[p].sid)[i]
                   = SendResponse(p).assistant]_vars

\* C18: the windowed read of a send returns the last min(20, n) of the n
\* messages the log holds when it is read, and the context begins with
\* the role and text of those messages in the order listMessages gives them.
C18_WindowIsLastInOrder ==
  [][\A p \in Procs :
       SendRead(p) =>
         LET rows == ListMessages(req[p].uid, req[p].sid)
             n == Len(rows)
             k == IF n < WindowLimit THEN n ELSE WindowLimit
         IN /\ DOMAIN snap'[p] = {rows[n - k + i].id : i \in 1..k}
            /\ \A key \in DOMAIN snap'[p] :
                 snap'[p][key] = msgs[req[p].uid][req[p].sid][key]
            /\ Len(history'[p]) >= k
            /\ \A i \in 1..k :
                 history'[p][i] = [role |-> rows[n - k + i].role,
                                   text |-> rows[n - k + i].text]]_vars

C18_Witness ==
  \E p \in Procs :
    /\ pc[p] = "gen"
    /\ Cardinality(DOMAIN Log(p)) > WindowLimit
    /\ Cardinality(DOMAIN snap[p]) = WindowLimit
    /\ 1 \notin DOMAIN snap[p]
    /\ userKey[p] \in DOMAIN snap[p]
    /\ history[p][1].role # history[p][2].role

\* C19: when the context is built, a message of the windowed read is left
\* out exactly when it has neither role nor text; one that has either of
\* the two is kept (the context has one entry for each such message, and
\* the entry for the request's message at its end).
C19_DroppedOnlyIfBothMissing ==
  [][\A p \in Procs :
       SendRead(p) =>
         /\ pc'[p] = "gen"
         /\ Len(history'[p]) =
              1 + Cardinality({k \in DOMAIN snap'[p] :
                                 \/ "role" \in DOMAIN snap'[p][k]
                                 \/ "text" \in DOMAIN snap'[p][k]})]_vars

\* the place of the message of key id in a list of rows
PlaceOf(rows, id) == CHOOSE i \in 1..Len(rows) : rows[i].id = id

\* C20: for every send whose reply has been stored, on a session that was
\* not deleted, also when another send runs on the same session at the same
\* time: the user message and the reply are both in the log, listMessages
\* gives the reply after the user message, the messages of two such sends
\* are four different entries, and as long as nothing was deleted every
\* message ever appended is still stored.
C20_ReplyFollowsNoLostAppend ==
  /\ \A p \in Procs :
       (pc[p] = "meta" /\ <<req[p].uid, req[p].sid>> \notin deleted)
         => /\ StoredIn(Log(p), userKey[p], "user", req[p].text)
            /\ StoredIn(Log(p), aiKey[p], "assistant", replyText[p])
            /\ PlaceOf(ListMessages(req[p].uid, req[p].sid), userKey[p])
                 < PlaceOf(ListMessages(req[p].uid, req[p].sid), aiKey[p])
  /\ \A p \in Procs, r \in Procs :
       (p # r /\ pc[p] = "meta" /\ pc[r] = "meta")
         => Cardinality({userKey[p], aiKey[p], userKey[r], aiKey[r]}) = 4
  /\ deleted = {}
       => Cardinality(UNION {DOMAIN msgs[q[1]][q[2]] : q \in Pairs}) = nextKey - 1

C20_Witness ==
  /\ deleted = {}
  /\ pc["p1"] = "meta" /\ pc["p2"] = "meta"
  /\ req["p1"].uid = req["p2"].uid /\ req["p1"].sid = req["p2"].sid
  /\ userKey["p1"] < userKey["p2"]
  /\ userKey["p2"] < aiKey["p2"]
  /\ aiKey["p2"] < aiKey["p1"]
  /\ Len(ListMessages(req["p1"].uid, req["p1"].sid)) = 4
  /\ Log("p1")[userKey["p2"]].ts = Log("p1")[aiKey["p1"]].ts

=============================================================================
